---- MODULE Spec2Model ----
(***************************************************************************)
(* Hashnode Wrapped: the reactive State of hashnode_wrapped_2.py, its      *)
(* aggregation transform process_stats and its submission handler          *)
(* handle_submit.                                                          *)
(*                                                                         *)
(* JSON values (the decoded response body and everything inside it) are    *)
(* tagged tuples, so that the dynamic type tests Python performs (and the  *)
(* AttributeError / TypeError / ValueError they end in) are part of the    *)
(* model:                                                                  *)
(*   <<"null">>        None                                                *)
(*   <<"int", n>>      an integer                                          *)
(*   <<"str", cs>>     a string, cs its sequence of characters             *)
(*   <<"list", s>>     a list, s its sequence of elements                  *)
(*   <<"obj", f>>      a dict, f a function from its keys to their values  *)
(* Strings that are only displayed (error_message, the metric values) are  *)
(* TLA+ strings.                                                           *)
(***************************************************************************)
EXTENDS Integers, Sequences, FiniteSets, TLC

VARIABLES
    username,           \* State.username
    is_loading,         \* State.is_loading
    error_message,      \* State.error_message
    user_data,          \* State.user_data
    stats_items,        \* State.stats_items
    user_display_name,  \* State.user_display_name
    posts_2024,         \* State.posts_2024
    post_count,         \* State.post_count
    ACCESS_TOKEN,       \* the module-level credential read from the environment
    pc,                 \* position of handle_submit: "idle" or "awaiting" (at the await)
    requests_sent,      \* requests the current (or last) handle_submit invocation sent
    response,           \* what client.post gave the last invocation: a response or an exception
    returned,           \* the event the last handle_submit invocation returned
    stats_calls         \* process_stats calls the current (or last) invocation made

vars == <<username, is_loading, error_message, user_data, stats_items,
          user_display_name, posts_2024, post_count, ACCESS_TOKEN, pc,
          requests_sent, response, returned, stats_calls>>

aggregate_vars == <<user_data, stats_items, user_display_name, posts_2024, post_count>>

handler_vars == <<username, is_loading, error_message, ACCESS_TOKEN, pc,
                  requests_sent, response, returned, stats_calls>>

----------------------------------------------------------------------------
(* JSON values and the Python operations the code applies to them *)

JNull == <<"null">>
JInt(n) == <<"int", n>>
JStr(cs) == <<"str", cs>>
JList(s) == <<"list", s>>
JObj(f) == <<"obj", f>>

IsNull(v) == v[1] = "null"
IsInt(v) == v[1] = "int"
IsStr(v) == v[1] = "str"
IsList(v) == v[1] = "list"
IsObj(v) == v[1] = "obj"

\* The empty dict {} and the empty list [] used as defaults in the code.
EmptyDict == JObj(<<>>)
EmptyList == JList(<<>>)

\* bool(v): None, 0, "", [] and {} are falsy.
Truthy(v) ==
    CASE IsNull(v) -> FALSE
      [] IsInt(v)  -> v[2] # 0
      [] IsStr(v)  -> Len(v[2]) > 0
      [] IsList(v) -> Len(v[2]) > 0
      [] IsObj(v)  -> DOMAIN v[2] # {}

\* `k in d` for a dict d.
HasKey(d, k) == k \in DOMAIN d[2]

\* d.get(k, default) for a dict d (d.get(k) is DictGet(d, k, JNull)).
DictGet(d, k, default) == IF HasKey(d, k) THEN d[2][k] ELSE default

\* The characters of a string as one TLA+ string.
RECURSIVE Text(_)
Text(cs) == IF cs = <<>> THEN "" ELSE Head(cs) \o Text(Tail(cs))

\* str(v) of an int or None.
PyStr(v) ==
    CASE IsInt(v)  -> ToString(v[2])
      [] IsNull(v) -> "None"
      [] IsStr(v)  -> Text(v[2])

----------------------------------------------------------------------------
(* str.replace, str.lower, substring test *)

\* s.replace("Z", "+00:00"): every "Z" of s becomes the six characters.
RECURSIVE ReplaceZ(_)
ReplaceZ(cs) ==
    IF cs = <<>> THEN <<>>
    ELSE (IF Head(cs) = "Z" THEN <<"+", "0", "0", ":", "0", "0">> ELSE <<Head(cs)>>)
         \o ReplaceZ(Tail(cs))

UpperCase == <<"A","B","C","D","E","F","G","H","I","J","K","L","M",
               "N","O","P","Q","R","S","T","U","V","W","X","Y","Z">>
LowerCase == <<"a","b","c","d","e","f","g","h","i","j","k","l","m",
               "n","o","p","q","r","s","t","u","v","w","x","y","z">>

LowerChar(c) ==
    IF \E i \in 1..26 : UpperCase[i] = c
    THEN LowerCase[CHOOSE i \in 1..26 : UpperCase[i] = c]
    ELSE c

\* s.lower()
Lower(cs) == [i \in 1..Len(cs) |-> LowerChar(cs[i])]

\* `sub in s` for strings.
Contains(cs, sub) ==
    \E i \in 0..(Len(cs) - Len(sub)) : SubSeq(cs, i + 1, i + Len(sub)) = sub

----------------------------------------------------------------------------
(* datetime.fromisoformat(...).year                                        *)
(* The grammar modelled is the one every supported interpreter accepts:    *)
(* YYYY-MM-DD, optionally followed by one separator character and          *)
(* HH:MM:SS, optionally followed by a +HH:MM or -HH:MM offset.             *)

TargetYear == 2024

Digits == <<"0","1","2","3","4","5","6","7","8","9">>
IsDigit(c) == \E i \in 1..10 : Digits[i] = c
DigitVal(c) == (CHOOSE i \in 1..10 : Digits[i] = c) - 1

AllDigits(cs) == \A i \in 1..Len(cs) : IsDigit(cs[i])

RECURSIVE Number(_)
Number(cs) ==
    IF cs = <<>> THEN 0
    ELSE 10 * Number(SubSeq(cs, 1, Len(cs) - 1)) + DigitVal(cs[Len(cs)])

IsLeap(y) == (y % 4 = 0) /\ ((y % 100 # 0) \/ (y % 400 = 0))

DaysInMonth(y, m) ==
    IF m = 2 THEN (IF IsLeap(y) THEN 29 ELSE 28)
    ELSE IF m \in {4, 6, 9, 11} THEN 30 ELSE 31

\* cs[1..10] is a calendar date YYYY-MM-DD.
ValidDate(cs) ==
    /\ Len(cs) >= 10
    /\ AllDigits(SubSeq(cs, 1, 4)) /\ cs[5] = "-"
    /\ AllDigits(SubSeq(cs, 6, 7)) /\ cs[8] = "-"
    /\ AllDigits(SubSeq(cs, 9, 10))
    /\ Number(SubSeq(cs, 1, 4)) >= 1
    /\ Number(SubSeq(cs, 6, 7)) \in 1..12
    /\ Number(SubSeq(cs, 9, 10)) \in
           1..DaysInMonth(Number(SubSeq(cs, 1, 4)), Number(SubSeq(cs, 6, 7)))

\* cs is HH:MM:SS.
ValidClock(cs) ==
    /\ Len(cs) = 8
    /\ AllDigits(SubSeq(cs, 1, 2)) /\ cs[3] = ":"
    /\ AllDigits(SubSeq(cs, 4, 5)) /\ cs[6] = ":"
    /\ AllDigits(SubSeq(cs, 7, 8))
    /\ Number(SubSeq(cs, 1, 2)) \in 0..23
    /\ Number(SubSeq(cs, 4, 5)) \in 0..59
    /\ Number(SubSeq(cs, 7, 8)) \in 0..59

\* cs is +HH:MM or -HH:MM.
ValidOffset(cs) ==
    /\ Len(cs) = 6
    /\ cs[1] \in {"+", "-"}
    /\ AllDigits(SubSeq(cs, 2, 3)) /\ cs[4] = ":"
    /\ AllDigits(SubSeq(cs, 5, 6))
    /\ Number(SubSeq(cs, 2, 3)) \in 0..23
    /\ Number(SubSeq(cs, 5, 6)) \in 0..59

\* datetime.fromisoformat(cs) returns (TRUE) or raises ValueError (FALSE).
IsoParses(cs) ==
    /\ ValidDate(cs)
    /\ \/ Len(cs) = 10
       \/ Len(cs) = 19 /\ ValidClock(SubSeq(cs, 12, 19))
       \/ Len(cs) = 25 /\ ValidClock(SubSeq(cs, 12, 19))
                       /\ ValidOffset(SubSeq(cs, 20, 25))

\* datetime.fromisoformat(cs).year, where it parses: the year as written,
\* in the timestamp's own offset.
IsoYear(cs) == Number(SubSeq(cs, 1, 4))

----------------------------------------------------------------------------
(* Number formatting of the metric values *)

\* The three digits of n < 1000, zero-padded (a group after a separator).
Pad3(n) ==
    IF n < 10 THEN "00" \o ToString(n)
    ELSE IF n < 100 THEN "0" \o ToString(n)
    ELSE ToString(n)

\* f"{n:,}" for n >= 0: decimal digits with a comma between groups of three.
RECURSIVE FormatThousands(_)
FormatThousands(n) ==
    IF n < 1000 THEN ToString(n)
    ELSE FormatThousands(n \div 1000) \o "," \o Pad3(n % 1000)

\* Mutant of RoundedTenths: the tenths are truncated, not rounded.
RoundedTenths_Truncated(a, b) == (10 * a) \div b

\* The number of tenths nearest to a/b, a tie going to the even number of
\* tenths. This is what f"{a/b:.1f}" prints whenever a/b has an exact binary
\* representation at its ties, which is so for every b < 20 (a tie needs
\* 4 | b, and for b in {4, 8, 12, 16} the tie is a multiple of 1/4).
RoundedTenths(a, b) ==
    LET q == (10 * a) \div b
        r == (10 * a) % b
    IN  IF 2 * r < b THEN q
        ELSE IF 2 * r > b THEN q + 1
        ELSE IF q % 2 = 0 THEN q ELSE q + 1

\* f"{a/b:.1f}" for a >= 0, b > 0.
FormatOneDecimal(a, b) ==
    LET t == RoundedTenths(a, b)
    IN  ToString(t \div 10) \o "." \o ToString(t % 10)

----------------------------------------------------------------------------
(* process_stats *)

\* all_posts = user_data.get("posts", {}).get("nodes", []) raises: user_data
\* or its "posts" is not a dict.
AllPostsRaises(record) ==
    \/ ~IsObj(record)
    \/ ~IsObj(DictGet(record, "posts", EmptyDict))

AllPosts(record) == DictGet(DictGet(record, "posts", EmptyDict), "nodes", EmptyList)

\* post.get("publishedAt") and fromisoformat(post["publishedAt"].replace(...))
\* raises: post is not a dict, or publishedAt is truthy and is not a string
\* (no .replace) or is a string fromisoformat rejects.
PostFilterRaises(post) ==
    \/ ~IsObj(post)
    \/ /\ Truthy(DictGet(post, "publishedAt", JNull))
       /\ \/ ~IsStr(post[2]["publishedAt"])
          \/ ~IsoParses(ReplaceZ(post[2]["publishedAt"][2]))

\* Mutant of PostIn2024: the year test is dropped, any dated post is kept.
PostIn2024_AnyYear(post) == Truthy(DictGet(post, "publishedAt", JNull))

\* The condition of the comprehension, where it does not raise.
PostIn2024(post) ==
    /\ Truthy(DictGet(post, "publishedAt", JNull))
    /\ IsoYear(ReplaceZ(post[2]["publishedAt"][2])) = TargetYear

\* The comprehension raises: all_posts cannot be iterated (None, a number),
\* or an element is not a post (the characters of a non-empty string, the
\* keys of a non-empty dict), or the condition raises on a post.
FilterRaises(all_posts) ==
    \/ IsNull(all_posts) \/ IsInt(all_posts)
    \/ (IsStr(all_posts) \/ IsObj(all_posts)) /\ Truthy(all_posts)
    \/ IsList(all_posts) /\ \E i \in 1..Len(all_posts[2]) : PostFilterRaises(all_posts[2][i])

\* [post for post in all_posts if ...], in order.
Posts2024(all_posts) ==
    IF IsList(all_posts) THEN SelectSeq(all_posts[2], PostIn2024) ELSE <<>>

\* sum(post.get(key, 0) for post in posts) raises: a value is not a number.
SumRaises(posts, key) ==
    \E i \in 1..Len(posts) : ~IsInt(DictGet(posts[i], key, JInt(0)))

RECURSIVE SumOf(_, _)
SumOf(posts, key) ==
    IF posts = <<>> THEN 0
    ELSE DictGet(Head(posts), key, JInt(0))[2] + SumOf(Tail(posts), key)

\* len(user_data.get("badges", [])) if user_data.get("badges") else 0 raises:
\* badges is truthy and has no len().
BadgesRaises(record) == IsInt(DictGet(record, "badges", JNull)) /\ Truthy(DictGet(record, "badges", JNull))

TotalBadges(record) ==
    LET b == DictGet(record, "badges", JNull)
    IN  IF ~Truthy(b) THEN 0
        ELSE IF IsObj(b) THEN Cardinality(DOMAIN b[2])
        ELSE Len(b[2])

\* One DisplayMetric of stats_items.
Metric(title, value, description) ==
    [title |-> title, value |-> value, description |-> description]

\* "value" of the Avg. Reactions metric.
AvgReactionsValue(total_reactions, count) ==
    IF count > 0 THEN FormatOneDecimal(total_reactions, count) ELSE "0"

\* Mutant of StatsItems: the Badges Earned entry is left out.
StatsItems_NoBadges(count, total_views, total_reactions, total_followers, total_badges) ==
    << Metric("Total Articles", ToString(count), "Articles published in 2024"),
       Metric("Total Views", FormatThousands(total_views), "Content views in 2024"),
       Metric("Total Reactions", ToString(total_reactions), "Reactions in 2024"),
       Metric("Followers", PyStr(total_followers), "Total followers"),
       Metric("Avg. Reactions",
              IF count > 0 THEN FormatOneDecimal(total_reactions, count) ELSE "0",
              "Average reactions per post") >>

\* The list assigned to self.stats_items.
StatsItems(count, total_views, total_reactions, total_followers, total_badges) ==
    << Metric("Total Articles", ToString(count), "Articles published in 2024"),
       Metric("Total Views", FormatThousands(total_views), "Content views in 2024"),
       Metric("Total Reactions", ToString(total_reactions), "Reactions in 2024"),
       Metric("Followers", PyStr(total_followers), "Total followers"),
       Metric("Badges Earned", ToString(total_badges), "Total badges collected"),
       Metric("Avg. Reactions", AvgReactionsValue(total_reactions, count),
              "Average reactions per post") >>

\* How far the try block of process_stats gets on `record`:
\*   "filter"  an exception before self.posts_2024 is assigned
\*   "totals"  an exception after posts_2024 and post_count are assigned
\*   "done"    no exception
StatsStage(record) ==
    IF AllPostsRaises(record) THEN "filter"
    ELSE IF FilterRaises(AllPosts(record)) THEN "filter"
    ELSE LET kept == Posts2024(AllPosts(record))
         IN  IF \/ SumRaises(kept, "views")
                \/ SumRaises(kept, "reactionCount")
                \/ BadgesRaises(record)
             THEN "totals"
             ELSE "done"

\* What the try block of process_stats computes from `record`: how far it
\* gets, the posts it keeps (none before the assignment of posts_2024) and,
\* where it ends without an exception, the display name and the metrics.
StatsResult(record) ==
    LET stage == StatsStage(record)
        kept == IF stage = "filter" THEN <<>> ELSE Posts2024(AllPosts(record))
    IN  [stage |-> stage,
         kept |-> kept,
         name |-> IF stage = "done" THEN DictGet(record, "username", JStr(<<>>))
                  ELSE JStr(<<>>),
         items |-> IF stage = "done"
                   THEN StatsItems(Len(kept),
                                   SumOf(kept, "views"),
                                   SumOf(kept, "reactionCount"),
                                   DictGet(record, "followersCount", JInt(0)),
                                   TotalBadges(record))
                   ELSE <<>>]

----------------------------------------------------------------------------
(* Inputs: the user records the API can return *)

\* Longest post list drawn from the pool for a record given to process_stats
\* directly (SpecAgg).
MaxPosts == 2
\* Longest post list of a record inside a response body (Spec).
MaxRespPosts == 1

Ann == <<"a","n","n">>
Bob == <<"b","o","b">>
Usernames == {Ann, Bob}

Stamp2024Z == <<"2","0","2","4","-","0","3","-","0","1","T","0","0",":","0","0",":","0","0","Z">>
Stamp2023Z == <<"2","0","2","3","-","1","2","-","3","1","T","2","3",":","5","9",":","5","9","Z">>
Stamp2024Offset == <<"2","0","2","4","-","0","6","-","1","5","T","1","2",":","3","0",":","0","0","+","0","5",":","3","0">>
StampUnparsable == <<"n","o","t","-","a","-","d","a","t","e">>

\* A post node as the query returns it; title and replyCount, which the
\* program never reads, are left out.
Post(publishedAt, views, reactionCount) ==
    JObj([publishedAt |-> publishedAt, views |-> views, reactionCount |-> reactionCount])

PostA == Post(JStr(Stamp2024Z), JInt(100), JInt(10))
PostB == Post(JStr(Stamp2023Z), JInt(50), JInt(5))
PostC == Post(JStr(Stamp2024Offset), JInt(1234567), JInt(12345))
PostUnparsable == Post(JStr(StampUnparsable), JInt(7), JInt(3))
PostNoDate == JObj([views |-> JInt(7), reactionCount |-> JInt(3)])
PostNullDate == Post(JNull, JInt(7), JInt(3))
PostEmptyDate == Post(JStr(<<>>), JInt(7), JInt(3))
PostNullViews == Post(JStr(Stamp2024Z), JNull, JInt(4))
PostNoCounts == JObj([publishedAt |-> JStr(Stamp2024Z)])

PostPool == {PostA, PostB, PostC, PostUnparsable}

\* Every list of at most n posts of the pool.
NodeLists(n) == UNION {[1..k -> PostPool] : k \in 0..n}

Badge == JObj([name |-> JStr(<<"a">>)])

\* A well-shaped user record: the scenario's followersCount and badges.
UserRecord(name, nodes) ==
    JObj([username |-> JStr(name), followersCount |-> JInt(10),
          badges |-> JList(<<Badge>>), posts |-> JObj([nodes |-> JList(nodes)])])

\* Records that depart from the shape of UserRecord in one place.
ShapeVariants ==
    { UserRecord(Bob, <<PostNoDate, PostA>>),
      UserRecord(Bob, <<PostNullDate, PostEmptyDate, PostC>>),
      UserRecord(Bob, <<PostNullViews>>),
      UserRecord(Ann, <<PostNoCounts, PostA>>),
      JObj([username |-> JStr(Bob), followersCount |-> JInt(10), badges |-> JList(<<Badge>>)]),
      JObj([username |-> JStr(Bob), followersCount |-> JInt(10), badges |-> JList(<<Badge>>),
            posts |-> JNull]),
      JObj([username |-> JStr(Bob), followersCount |-> JInt(10), badges |-> JList(<<Badge>>),
            posts |-> JObj([nodes |-> JNull])]),
      JObj([username |-> JStr(Ann), posts |-> JObj([nodes |-> JList(<<PostA>>)])]),
      JObj([username |-> JStr(Bob), followersCount |-> JNull, badges |-> JNull,
            posts |-> JObj([nodes |-> JList(<<PostC>>)])]),
      JObj([username |-> JStr(Bob), followersCount |-> JInt(10), badges |-> JInt(3),
            posts |-> JObj([nodes |-> JList(<<PostA>>)])]),
      JObj([followersCount |-> JInt(0), badges |-> EmptyList,
            posts |-> JObj([nodes |-> JList(<<PostA, PostC>>)])]) }

\* Records of the documented scenarios: a 2024 and a 2023 post; no posts;
\* three 2024 posts whose mean reaction count has no exact tenth.
ScenarioRecords ==
    { UserRecord(Ann, <<PostA, PostB>>),
      UserRecord(Ann, <<>>),
      UserRecord(Ann, <<PostA, PostA, PostC>>),
      UserRecord(Bob, <<PostC, PostB, PostC>>) }

\* The records process_stats is applied to under SpecAgg.
AggRecords ==
    {UserRecord(Ann, nodes) : nodes \in NodeLists(MaxPosts)}
        \cup ScenarioRecords \cup ShapeVariants

\* The records a response body can carry under Spec.
SubmitRecords ==
    {UserRecord(name, nodes) : name \in Usernames, nodes \in NodeLists(MaxRespPosts)}
        \cup ScenarioRecords \cup ShapeVariants

----------------------------------------------------------------------------
(* Inputs: what client.post can give handle_submit *)

\* error_message = None, and a handler returning no event.
None == "<None>"

\* No response yet: the invocation returned before the request, or waits.
NoResponse == [kind |-> "None"]

\* The credential as os.getenv gives it: unset, empty, or a token.
Tokens == {JNull, JStr(<<>>), JStr(<<"t","o","k">>)}

\* A raised httpx.RequestError; `detail` is str(e). ReadTimeout is what the
\* 30 second timeout of the request raises.
RequestError(type, detail) == [kind |-> "RequestError", type |-> type, detail |-> detail]

RequestErrors ==
    { RequestError("ConnectError", "All connection attempts failed"),
      RequestError("ReadTimeout", "The read operation timed out") }

\* A response: its status code and its body, either text that is not JSON
\* (<<"text">>) or the value response.json() decodes it to (<<"json", v>>).
Response(status_code, body) == [kind |-> "Response", status_code |-> status_code, body |-> body]

NotJson == <<"text">>
Json(v) == <<"json", v>>

MsgNotAuthenticated == <<"U","s","e","r"," ","n","o","t"," ","a","u","t","h","e","n","t","i","c","a","t","e","d">>
MsgAuthRequired == <<"A","u","t","h","e","n","t","i","c","a","t","i","o","n"," ","r","e","q","u","i","r","e","d">>
MsgUnauthorizedUpper == <<"U","N","A","U","T","H","O","R","I","Z","E","D">>
MsgOther == <<"R","a","t","e"," ","l","i","m","i","t","e","d">>
MsgUnknown == <<"U","n","k","n","o","w","n"," ","G","r","a","p","h","Q","L"," ","e","r","r","o","r">>

GraphQLError(message) == JObj([message |-> message])

\* Bodies of 2xx responses without a user record.
PlainBodies ==
    { NotJson,
      Json(JNull),
      Json(EmptyList),
      Json(EmptyDict),
      Json(JObj([data |-> JNull])),
      Json(JObj([data |-> EmptyDict])),
      Json(JObj([data |-> JObj([user |-> JNull])])),
      Json(JObj([errors |-> JList(<<GraphQLError(JStr(MsgNotAuthenticated))>>), data |-> JNull])),
      Json(JObj([errors |-> JList(<<GraphQLError(JStr(MsgUnauthorizedUpper))>>)])),
      Json(JObj([errors |-> JList(<<GraphQLError(JStr(MsgAuthRequired))>>)])),
      Json(JObj([errors |-> JList(<<GraphQLError(JStr(MsgOther)), GraphQLError(JStr(MsgAuthRequired))>>)])),
      Json(JObj([errors |-> JList(<<JObj(<<>>)>>)])),
      Json(JObj([errors |-> JList(<<GraphQLError(JNull)>>)])),
      Json(JObj([errors |-> EmptyList])),
      Json(JObj([errors |-> JNull])),
      Json(JObj([errors |-> JList(<<GraphQLError(JStr(MsgOther))>>),
                 data |-> JObj([user |-> UserRecord(Ann, <<PostA>>)])])) }

UserBodies == {Json(JObj([data |-> JObj([user |-> r])])) : r \in SubmitRecords}

ErrorStatusCodes == {301, 401, 403, 404, 500}

Responses ==
    {Response(200, b) : b \in PlainBodies \cup UserBodies}
        \cup {Response(201, Json(JObj([data |-> JObj([user |-> UserRecord(Bob, <<PostC>>)])])))}
        \cup {Response(c, NotJson) : c \in ErrorStatusCodes}

Outcomes == RequestErrors \cup Responses

----------------------------------------------------------------------------
(* handle_submit: the classification of what client.post gave *)

\* type(v).__name__
TypeName(v) ==
    CASE IsNull(v) -> "NoneType"
      [] IsInt(v)  -> "int"
      [] IsStr(v)  -> "str"
      [] IsList(v) -> "list"
      [] IsObj(v)  -> "dict"

NoAttribute(v, attr) == "'" \o TypeName(v) \o "' object has no attribute '" \o attr \o "'"

\* response.is_success, the test of raise_for_status.
IsSuccess(status_code) == status_code \in 200..299

\* str(e) of the HTTPStatusError raise_for_status raises (its reason phrase
\* and documentation link left out).
StatusErrorText(status_code) ==
    (IF status_code \in 100..199 THEN "Informational response"
     ELSE IF status_code \in 300..399 THEN "Redirect response"
     ELSE IF status_code \in 400..499 THEN "Client error"
     ELSE "Server error")
    \o " '" \o ToString(status_code) \o "' for url 'https://gql.hashnode.com'"

MsgInvalidToken == "Invalid access token. Please check your configuration."
MsgForbidden == "Access forbidden. Please check your permissions."
MsgUserNotFound == "User not found"
MsgEnterUsername == "Please enter a username"
MsgNoToken == "Access token not configured. Please check your .env file contains ACCESS_TOKEN"

\* Mutant of StatusErrorMessage: the 403 branch is missing.
StatusErrorMessage_No403(status_code) ==
    IF status_code = 401 THEN MsgInvalidToken
    ELSE "HTTP Error: " \o StatusErrorText(status_code)

\* The except httpx.HTTPStatusError block.
StatusErrorMessage(status_code) ==
    IF status_code = 401 THEN MsgInvalidToken
    ELSE IF status_code = 403 THEN MsgForbidden
    ELSE "HTTP Error: " \o StatusErrorText(status_code)

\* The except httpx.RequestError block.
RequestErrorMessage(e) == "Network Error: " \o e.detail

\* The except Exception block.
UnexpectedErrorMessage(detail) == "An unexpected error occurred: " \o detail

\* `"errors" in data`, where it does not raise.
HasErrors(data) ==
    CASE IsObj(data)  -> HasKey(data, "errors")
      [] IsList(data) -> \E i \in 1..Len(data[2]) : data[2][i] = JStr(<<"e","r","r","o","r","s">>)
      [] IsStr(data)  -> Contains(data[2], <<"e","r","r","o","r","s">>)

\* data["errors"][0].get("message", "Unknown GraphQL error"), where it does
\* not raise.
FirstErrorMessage(data) == DictGet(data[2]["errors"][2][1], "message", JStr(MsgUnknown))

\* str(e) of the exception lines 131-132 raise on a body that has "errors",
\* None when they raise nothing.
GraphQLErrorRaises(data) ==
    IF ~IsObj(data) THEN TypeName(data) \o " indices must be integers"
    ELSE LET errs == data[2]["errors"]
         IN  IF IsNull(errs) \/ IsInt(errs)
                 THEN "'" \o TypeName(errs) \o "' object is not subscriptable"
             ELSE IF IsObj(errs) THEN "0"
             ELSE IF ~Truthy(errs) THEN TypeName(errs) \o " index out of range"
             ELSE IF IsStr(errs) THEN NoAttribute(errs, "get")
             ELSE IF ~IsObj(errs[2][1]) THEN NoAttribute(errs[2][1], "get")
             ELSE IF ~IsStr(FirstErrorMessage(data))
                 THEN NoAttribute(FirstErrorMessage(data), "lower")
             ELSE None

\* str(e) of the exception lines 127-138 raise on the body of a 2xx
\* response, None when they raise nothing.
BodyRaises(body) ==
    IF body = NotJson THEN "Expecting value: line 1 column 1 (char 0)"
    ELSE LET data == body[2]
         IN  IF IsNull(data) \/ IsInt(data)
                 THEN "argument of type '" \o TypeName(data) \o "' is not iterable"
             ELSE IF HasErrors(data) THEN GraphQLErrorRaises(data)
             ELSE IF ~IsObj(data) THEN NoAttribute(data, "get")
             ELSE IF ~IsObj(DictGet(data, "data", EmptyDict))
                 THEN NoAttribute(DictGet(data, "data", EmptyDict), "get")
             ELSE None

\* The message lines 132-135 set for the first GraphQL error.
GraphQLErrorMessage(message) ==
    IF \/ Contains(Lower(message), <<"u","n","a","u","t","h","o","r","i","z","e","d">>)
       \/ Contains(Lower(message), <<"a","u","t","h","e","n","t","i","c","a","t","i","o","n">>)
    THEN MsgInvalidToken
    ELSE "API Error: " \o Text(message)

\* data.get("data", {}).get("user")
UserOf(data) == DictGet(DictGet(data, "data", EmptyDict), "user", JNull)

\* The event rx.redirect("/stats").
RedirectStats == "redirect:/stats"

----------------------------------------------------------------------------
(* The state machine *)

\* StatsResult of every input record, evaluated once.
StatsTable == [record \in AggRecords \cup SubmitRecords |-> StatsResult(record)]

\* Mutant of ExceptBlock: post_count is not reset.
ExceptBlock_KeepCount ==
    /\ stats_items' = <<>>
    /\ UNCHANGED post_count

\* Mutant of ExceptBlock: stats_items is not cleared.
ExceptBlock_KeepItems ==
    /\ post_count' = 0
    /\ UNCHANGED stats_items

\* The except block: stats_items = [] and post_count = 0, nothing else.
ExceptBlock ==
    /\ stats_items' = <<>>
    /\ post_count' = 0

\* process_stats(record): the effect on the five aggregate fields.
process_stats(record) ==
    LET result == StatsTable[record]
    IN  /\ user_data' = record
        /\ CASE result.stage = "filter" ->
                  /\ ExceptBlock
                  /\ UNCHANGED <<posts_2024, user_display_name>>
             [] result.stage = "totals" ->
                  /\ posts_2024' = result.kept
                  /\ ExceptBlock
                  /\ UNCHANGED user_display_name
             [] result.stage = "done" ->
                  /\ posts_2024' = result.kept
                  /\ post_count' = Len(result.kept)
                  /\ user_display_name' = result.name
                  /\ stats_items' = result.items

Init ==
    /\ username = <<>>
    /\ is_loading = FALSE
    /\ error_message = None
    /\ user_data = EmptyDict
    /\ stats_items = <<>>
    /\ user_display_name = JStr(<<>>)
    /\ posts_2024 = <<>>
    /\ post_count = 0
    /\ ACCESS_TOKEN \in Tokens
    /\ pc = "idle"
    /\ requests_sent = 0
    /\ response = NoResponse
    /\ returned = None
    /\ stats_calls = 0

\* State.set_username, the input's on_change handler. Handlers of one
\* client run one at a time, so it runs between handle_submit invocations.
set_username(value) ==
    /\ pc = "idle"
    /\ username' = value
    /\ UNCHANGED <<is_loading, error_message, aggregate_vars, ACCESS_TOKEN, pc,
                   requests_sent, response, returned, stats_calls>>

\* Mutant of SubmitNoUsername: the return is missing, the request is sent.
SubmitNoUsername_NoReturn ==
    /\ pc = "idle"
    /\ username = <<>>
    /\ is_loading' = TRUE
    /\ error_message' = None
    /\ requests_sent' = 1 /\ stats_calls' = 0 /\ returned' = None /\ response' = NoResponse
    /\ pc' = "awaiting"
    /\ UNCHANGED <<username, aggregate_vars, ACCESS_TOKEN>>

\* handle_submit returns at line 95: no username.
SubmitNoUsername ==
    /\ pc = "idle"
    /\ username = <<>>
    /\ error_message' = MsgEnterUsername
    /\ requests_sent' = 0 /\ stats_calls' = 0 /\ returned' = None /\ response' = NoResponse
    /\ UNCHANGED <<username, is_loading, aggregate_vars, ACCESS_TOKEN, pc>>

\* handle_submit returns at line 99: no credential.
SubmitNoToken ==
    /\ pc = "idle"
    /\ username # <<>>
    /\ ~Truthy(ACCESS_TOKEN)
    /\ error_message' = MsgNoToken
    /\ requests_sent' = 0 /\ stats_calls' = 0 /\ returned' = None /\ response' = NoResponse
    /\ UNCHANGED <<username, is_loading, aggregate_vars, ACCESS_TOKEN, pc>>

\* handle_submit, lines 101-118: the flags are set and the one request of
\* the invocation is sent; the handler then waits at the await.
SubmitSend ==
    /\ pc = "idle"
    /\ username # <<>>
    /\ Truthy(ACCESS_TOKEN)
    /\ is_loading' = TRUE
    /\ error_message' = None
    /\ requests_sent' = 1 /\ stats_calls' = 0 /\ returned' = None /\ response' = NoResponse
    /\ pc' = "awaiting"
    /\ UNCHANGED <<username, aggregate_vars, ACCESS_TOKEN>>

\* Mutant of Finally: the finally block does not clear is_loading.
Finally_NoReset(outcome) ==
    /\ pc = "awaiting"
    /\ response' = outcome
    /\ pc' = "idle"
    /\ UNCHANGED <<username, ACCESS_TOKEN, requests_sent, is_loading>>

\* What every way out of the try statement shares: the finally block, and
\* the handler is over.
Finally(outcome) ==
    /\ pc = "awaiting"
    /\ response' = outcome
    /\ is_loading' = FALSE
    /\ pc' = "idle"
    /\ UNCHANGED <<username, ACCESS_TOKEN, requests_sent>>

\* Mutant of FailWith: a failed submission also clears the metrics.
FailWith_ClearStats(message) ==
    /\ error_message' = message
    /\ returned' = None
    /\ stats_items' = <<>>
    /\ UNCHANGED <<user_data, user_display_name, posts_2024, post_count, stats_calls>>

\* An exit that sets error_message and nothing else.
FailWith(message) ==
    /\ error_message' = message
    /\ returned' = None
    /\ UNCHANGED <<aggregate_vars, stats_calls>>

\* client.post raises a RequestError (a timeout included).
ReceiveRequestError(outcome) ==
    /\ outcome.kind = "RequestError"
    /\ Finally(outcome)
    /\ FailWith(RequestErrorMessage(outcome))

\* raise_for_status raises.
ReceiveStatusError(outcome) ==
    /\ outcome.kind = "Response"
    /\ ~IsSuccess(outcome.status_code)
    /\ Finally(outcome)
    /\ FailWith(StatusErrorMessage(outcome.status_code))

\* Decoding or inspecting the body raises.
ReceiveUnexpected(outcome) ==
    /\ outcome.kind = "Response"
    /\ IsSuccess(outcome.status_code)
    /\ BodyRaises(outcome.body) # None
    /\ Finally(outcome)
    /\ FailWith(UnexpectedErrorMessage(BodyRaises(outcome.body)))

\* The body has "errors": lines 130-136.
ReceiveGraphQLError(outcome) ==
    /\ outcome.kind = "Response"
    /\ IsSuccess(outcome.status_code)
    /\ BodyRaises(outcome.body) = None
    /\ HasErrors(outcome.body[2])
    /\ Finally(outcome)
    /\ FailWith(GraphQLErrorMessage(FirstErrorMessage(outcome.body[2])[2]))

\* No user in the body: lines 138-140.
ReceiveNotFound(outcome) ==
    /\ outcome.kind = "Response"
    /\ IsSuccess(outcome.status_code)
    /\ BodyRaises(outcome.body) = None
    /\ ~HasErrors(outcome.body[2])
    /\ ~Truthy(UserOf(outcome.body[2]))
    /\ Finally(outcome)
    /\ FailWith(MsgUserNotFound)

\* A user record: lines 142-143.
ReceiveUser(outcome) ==
    /\ outcome.kind = "Response"
    /\ IsSuccess(outcome.status_code)
    /\ BodyRaises(outcome.body) = None
    /\ ~HasErrors(outcome.body[2])
    /\ Truthy(UserOf(outcome.body[2]))
    /\ Finally(outcome)
    /\ process_stats(outcome.body[2][2]["data"][2]["user"])
    /\ stats_calls' = 1
    /\ returned' = RedirectStats
    /\ UNCHANGED error_message

handle_submit ==
    \/ SubmitNoUsername
    \/ SubmitNoToken
    \/ SubmitSend
    \/ \E outcome \in Outcomes :
          \/ ReceiveRequestError(outcome)
          \/ ReceiveStatusError(outcome)
          \/ ReceiveUnexpected(outcome)
          \/ ReceiveGraphQLError(outcome)
          \/ ReceiveNotFound(outcome)
          \/ ReceiveUser(outcome)

Next ==
    \/ \E value \in Usernames \cup {<<>>} : set_username(value)
    \/ handle_submit

Spec == Init /\ [][Next]_vars

\* process_stats applied to one record after another, outside any submission.
ProcessStatsCall ==
    \E record \in AggRecords :
        /\ process_stats(record)
        /\ UNCHANGED handler_vars

NextAgg == ProcessStatsCall

\* The state after construction, with a credential configured.
InitAgg == Init /\ Truthy(ACCESS_TOKEN)

SpecAgg == InitAgg /\ [][NextAgg]_vars

----------------------------------------------------------------------------
(* The records and posts the properties speak about *)

\* The posts of a record whose "posts" is a dict with a list of nodes.
NodesOf(record) == record[2]["posts"][2]["nodes"][2]

HasNodeList(record) ==
    /\ IsObj(record) /\ HasKey(record, "posts") /\ IsObj(record[2]["posts"])
    /\ HasKey(record[2]["posts"], "nodes") /\ IsList(record[2]["posts"][2]["nodes"])

\* The post has non-negative integer views and reactionCount.
HasCounts(post) ==
    /\ IsObj(post)
    /\ HasKey(post, "views") /\ IsInt(post[2]["views"]) /\ post[2]["views"][2] >= 0
    /\ HasKey(post, "reactionCount") /\ IsInt(post[2]["reactionCount"])
    /\ post[2]["reactionCount"][2] >= 0

\* publishedAt is a timestamp that parses (a trailing Z read as +00:00).
DateParses(post) ==
    /\ HasKey(post, "publishedAt") /\ IsStr(post[2]["publishedAt"])
    /\ IsoParses(ReplaceZ(post[2]["publishedAt"][2]))

ParsedYear(post) == IsoYear(ReplaceZ(post[2]["publishedAt"][2]))

\* followersCount, badges and username as the data model types them.
HasProfile(record) ==
    /\ HasKey(record, "username") /\ IsStr(record[2]["username"])
    /\ HasKey(record, "followersCount") /\ IsInt(record[2]["followersCount"])
    /\ HasKey(record, "badges") /\ IsList(record[2]["badges"])

\* A UserRecord of the data model: typed fields, every publishedAt parses.
IsUserRecord(record) ==
    /\ HasNodeList(record) /\ HasProfile(record)
    /\ \A i \in 1..Len(NodesOf(record)) :
          HasCounts(NodesOf(record)[i]) /\ DateParses(NodesOf(record)[i])

\* A UserRecord but for posts whose publishedAt is missing or unparsable.
IsUserRecordButDates(record) ==
    /\ HasNodeList(record) /\ HasProfile(record)
    /\ \A i \in 1..Len(NodesOf(record)) : HasCounts(NodesOf(record)[i])

\* No post of the record carries a publishedAt string that does not parse.
NoUnparsableDate(record) ==
    HasNodeList(record) =>
        \A i \in 1..Len(NodesOf(record)) :
            LET post == NodesOf(record)[i]
            IN  (IsObj(post) /\ HasKey(post, "publishedAt")
                    /\ IsStr(post[2]["publishedAt"]) /\ Truthy(post[2]["publishedAt"]))
                => IsoParses(ReplaceZ(post[2]["publishedAt"][2]))

\* The positions of the record's posts whose parsed year is the target year.
TargetYearIndices(record) ==
    {i \in 1..Len(NodesOf(record)) :
        DateParses(NodesOf(record)[i]) /\ ParsedYear(NodesOf(record)[i]) = TargetYear}

RECURSIVE SumField(_, _, _)
SumField(nodes, indices, key) ==
    IF indices = {} THEN 0
    ELSE LET i == CHOOSE j \in indices : TRUE
         IN  nodes[i][2][key][2] + SumField(nodes, indices \ {i}, key)

MetricTitles ==
    <<"Total Articles", "Total Views", "Total Reactions", "Followers",
      "Badges Earned", "Avg. Reactions">>

\* stats_items holds the six metrics in the fixed order.
SixMetrics ==
    /\ Len(stats_items) = 6
    /\ \A i \in 1..6 : stats_items[i].title = MetricTitles[i]

----------------------------------------------------------------------------
(* Properties of process_stats (SpecAgg) *)

\* C1: posts whose publishedAt parses to a year other than 2024 never enter
\* posts_2024, and for every UserRecord the post count, the Total Views sum
\* and the Total Reactions sum are taken over exactly the posts whose parsed
\* year is 2024.
C1_OtherYearsExcluded ==
    /\ \A i \in 1..Len(posts_2024) :
          DateParses(posts_2024[i]) /\ ParsedYear(posts_2024[i]) = TargetYear
    /\ IsUserRecord(user_data) =>
          LET nodes == NodesOf(user_data)
              kept == TargetYearIndices(user_data)
          IN  /\ SixMetrics
              /\ Len(posts_2024) = Cardinality(kept)
              /\ \A i \in 1..Len(nodes) : i \notin kept =>
                    \A j \in 1..Len(posts_2024) : posts_2024[j] # nodes[i]
              /\ post_count = Cardinality(kept)
              /\ stats_items[1].value = ToString(Cardinality(kept))
              /\ stats_items[2].value = FormatThousands(SumField(nodes, kept, "views"))
              /\ stats_items[3].value = ToString(SumField(nodes, kept, "reactionCount"))

\* C1 witness: the documented scenario, a 2024 post and a 2023 post, has
\* been aggregated: one article, 100 views, 10 reactions.
C1_Witness ==
    /\ user_data = UserRecord(Ann, <<PostA, PostB>>)
    /\ post_count = 1
    /\ posts_2024 = <<PostA>>
    /\ stats_items[2].value = "100"
    /\ stats_items[3].value = "10"

\* C2: a post whose publishedAt is missing or unparsable is dropped silently:
\* the six metrics are those of the record without its malformed posts.
C2_MalformedDateDropped ==
    (IsUserRecordButDates(user_data) /\ ~IsUserRecord(user_data)) =>
        LET nodes == NodesOf(user_data)
            kept == TargetYearIndices(user_data)
        IN  /\ SixMetrics
            /\ post_count = Cardinality(kept)
            /\ stats_items[1].value = ToString(Cardinality(kept))
            /\ stats_items[2].value = FormatThousands(SumField(nodes, kept, "views"))
            /\ stats_items[3].value = ToString(SumField(nodes, kept, "reactionCount"))

\* C3: whenever the metrics are produced from posts with non-negative integer
\* reaction counts, Avg. Reactions is "0" for a post count of 0, and otherwise
\* the decimal with one fractional digit nearest to the reaction total of
\* the kept posts divided by the post count.
C3_AvgReactions ==
    (stats_items # <<>> /\ \A i \in 1..Len(posts_2024) : HasCounts(posts_2024[i])) =>
        LET total == SumField(posts_2024, 1..Len(posts_2024), "reactionCount")
            value == stats_items[6].value
        IN  /\ stats_items[6].title = "Avg. Reactions"
            /\ post_count = 0 => value = "0"
            /\ post_count > 0 =>
                  \E t \in ((10 * total) \div post_count)..((10 * total) \div post_count + 1) :
                      /\ value = ToString(t \div 10) \o "." \o ToString(t % 10)
                      /\ 2 * (10 * total - t * post_count) <= post_count
                      /\ 2 * (t * post_count - 10 * total) <= post_count

\* C3 witness: three 2024 posts with 10, 10 and 12345 reactions: the mean
\* 4121.66.. is shown as 4121.7.
C3_Witness ==
    /\ user_data = UserRecord(Ann, <<PostA, PostA, PostC>>)
    /\ post_count = 3
    /\ stats_items[6].value = "4121.7"

\* C5: post_count is always the length of posts_2024, and it is the number
\* shown as Total Articles (stated for the records without an unparsable
\* date, the subject of C2).
C5_PostCountIsFilterLength ==
    NoUnparsableDate(user_data) =>
        /\ post_count = Len(posts_2024)
        /\ stats_items # <<>> => stats_items[1].value = ToString(post_count)

----------------------------------------------------------------------------
(* Properties of handle_submit (Spec) *)

\* C4 as claimed: once process_stats has been called, stats_items holds
\* exactly the six metrics in the fixed order (stated for the records without
\* an unparsable date, the subject of C2).
C4_AlwaysSixMetrics ==
    (user_data # EmptyDict /\ NoUnparsableDate(user_data)) => SixMetrics

\* C4 as amended: stats_items is always either empty or the six metrics in
\* the fixed order; a process_stats call produces the six exactly when its
\* try block ends without an exception, and leaves stats_items empty when not.
C4_SixMetricsOrEmpty ==
    /\ stats_items = <<>> \/ SixMetrics
    /\ user_data # EmptyDict => (SixMetrics <=> StatsStage(user_data) = "done")

\* C4 witness: a submission whose aggregation raised has returned: the
\* record is stored and stats_items is empty.
C4_Witness ==
    /\ pc = "idle" /\ stats_calls = 1
    /\ user_data # EmptyDict
    /\ stats_items = <<>>

\* C6: a submission that called process_stats ends as a normal completion (no
\* error_message, the redirect to /stats, is_loading cleared), also when the
\* aggregation raised, and then stats_items is empty and post_count is 0.
C6_AggregationErrorsDegrade ==
    (pc = "idle" /\ stats_calls = 1) =>
        /\ error_message = None
        /\ returned = RedirectStats
        /\ is_loading = FALSE
        /\ StatsStage(user_data) # "done" => (stats_items = <<>> /\ post_count = 0)

\* C6 witness: the record whose 2024 post has null views was submitted after
\* a successful submission: the sum raised, the handler redirected.
C6_Witness ==
    /\ pc = "idle" /\ stats_calls = 1
    /\ user_data = UserRecord(Bob, <<PostNullViews>>)
    /\ posts_2024 = <<PostNullViews>>
    /\ user_display_name = JStr(Ann)
    /\ stats_items = <<>> /\ post_count = 0
    /\ returned = RedirectStats /\ error_message = None

\* C7: an invocation with no username or no credential sets the matching
\* error_message and returns with no request sent, leaving is_loading,
\* stats_items, post_count and user_data as they were; no invocation sends
\* more than one request.
C7_RejectedBeforeRequest ==
    /\ [](requests_sent <= 1)
    /\ [][ (pc = "idle" /\ username' = username
              /\ (username = <<>> \/ ~Truthy(ACCESS_TOKEN)))
           => /\ error_message' = (IF username = <<>> THEN MsgEnterUsername ELSE MsgNoToken)
              /\ requests_sent' = 0
              /\ pc' = "idle"
              /\ response' = NoResponse
              /\ UNCHANGED <<is_loading, stats_items, post_count, user_data>> ]_vars

\* C7 witness: after a successful submission the username was cleared and
\* the form submitted: the error is shown, the metrics are still there.
C7_Witness ==
    /\ pc = "idle"
    /\ error_message = MsgEnterUsername
    /\ requests_sent = 0
    /\ stats_items # <<>>

NetworkMessages == {RequestErrorMessage(e) : e \in RequestErrors}
HttpMessages == {"HTTP Error: " \o StatusErrorText(c) : c \in ErrorStatusCodes}

\* C8: a transport failure (a timeout included) ends in the network error,
\* status 401 in the invalid-token error, 403 in the forbidden error, any
\* other non-2xx status in the generic HTTP error; a 401 or 403 is never
\* shown as a network or generic HTTP error.
C8_TransportClassification ==
    (pc = "idle" /\ response # NoResponse) =>
        /\ response.kind = "RequestError" =>
              error_message = "Network Error: " \o response.detail
        /\ (response.kind = "Response" /\ response.status_code = 401) =>
              error_message = MsgInvalidToken
        /\ (response.kind = "Response" /\ response.status_code = 403) =>
              error_message = MsgForbidden
        /\ (response.kind = "Response" /\ response.status_code \in {401, 403}) =>
              error_message \notin NetworkMessages \cup HttpMessages
        /\ (response.kind = "Response" /\ response.status_code \notin 200..299
               /\ response.status_code \notin {401, 403}) =>
              error_message \in HttpMessages

\* C8 witness: the request timed out and the network error is shown.
C8_Witness ==
    /\ pc = "idle"
    /\ response = RequestError("ReadTimeout", "The read operation timed out")
    /\ error_message = "Network Error: The read operation timed out"

\* C9: a 2xx body without errors whose user field is null or absent, data
\* itself being null or absent included, ends in "User not found".
C9_NoUserIsNotFound ==
    (/\ pc = "idle" /\ response.kind = "Response" /\ IsSuccess(response.status_code)
     /\ response.body # NotJson /\ IsObj(response.body[2])
     /\ ~HasKey(response.body[2], "errors")
     /\ LET data == response.body[2]
        IN  \/ ~HasKey(data, "data")
            \/ IsNull(data[2]["data"])
            \/ /\ IsObj(data[2]["data"])
               /\ \/ ~HasKey(data[2]["data"], "user")
                  \/ IsNull(data[2]["data"][2]["user"]))
    => (error_message = MsgUserNotFound /\ stats_calls = 0)

\* The submission got a fetch error: a transport failure, a non-2xx status,
\* a first GraphQL error with a message, or a body with no user.
FetchFailed(outcome) ==
    \/ outcome.kind = "RequestError"
    \/ /\ outcome.kind = "Response"
       /\ \/ ~IsSuccess(outcome.status_code)
          \/ /\ outcome.body # NotJson /\ IsObj(outcome.body[2])
             /\ LET data == outcome.body[2]
                IN  \/ /\ HasKey(data, "errors") /\ IsList(data[2]["errors"])
                       /\ Len(data[2]["errors"][2]) > 0
                       /\ IsObj(data[2]["errors"][2][1])
                       /\ IsStr(DictGet(data[2]["errors"][2][1], "message", JStr(<<>>)))
                    \/ /\ ~HasKey(data, "errors")
                       /\ \/ ~HasKey(data, "data")
                          \/ /\ IsObj(data[2]["data"])
                             /\ ~Truthy(DictGet(data[2]["data"], "user", JNull))

\* C10: a submission that ends in a fetch error sets error_message, does not
\* call process_stats, returns no redirect, and leaves user_data,
\* stats_items, posts_2024, post_count and user_display_name as they were.
C10_FetchErrorFrame ==
    [][ (pc = "awaiting" /\ pc' = "idle" /\ FetchFailed(response'))
        => /\ error_message' # None
           /\ stats_calls' = 0
           /\ returned' = None
           /\ UNCHANGED <<user_data, stats_items, posts_2024, post_count,
                          user_display_name>> ]_vars

\* C10 witness: after a successful submission, a submission ended in "User
\* not found": the error is shown and the earlier metrics are still stored.
C10_Witness ==
    /\ pc = "idle"
    /\ error_message = MsgUserNotFound
    /\ stats_calls = 0 /\ returned = None
    /\ stats_items # <<>>

\* C11: is_loading is true exactly while a handle_submit invocation waits for
\* its request: it is false whenever no invocation is running, and every way
\* out of an invocation that sent the request (success, degraded success,
\* GraphQL error, not found, HTTP error, network error, unexpected error)
\* leaves it false, so the form is never left disabled.
C11_LoadingOnlyInFlight ==
    /\ [](is_loading <=> pc = "awaiting")
    /\ [][ (pc = "awaiting" /\ pc' = "idle")
           => (requests_sent' = 1 /\ response' # NoResponse /\ is_loading' = FALSE) ]_vars

\* C11 witness: the second submission in a row ended in the unexpected-error
\* branch (the body could not be inspected) after a first one succeeded, and
\* the form is enabled again.
C11_Witness ==
    /\ pc = "idle" /\ requests_sent = 1
    /\ response.kind = "Response" /\ IsSuccess(response.status_code)
    /\ BodyRaises(response.body) # None
    /\ error_message = UnexpectedErrorMessage(BodyRaises(response.body))
    /\ stats_items # <<>>
    /\ is_loading = FALSE

\* C12: whenever stats_items is non-empty, it is the six metrics the
\* aggregation computes from the record stored in user_data, and
\* user_display_name is that record's username (the empty string for a
\* record without one).
C12_MetricsOfStoredRecord ==
    stats_items # <<>> =>
        /\ user_data \in DOMAIN StatsTable
        /\ StatsTable[user_data].stage = "done"
        /\ stats_items = StatsTable[user_data].items
        /\ stats_items[1].value = ToString(Len(posts_2024))
        /\ user_display_name = DictGet(user_data, "username", JStr(<<>>))
        /\ IsUserRecord(user_data) =>
              LET nodes == NodesOf(user_data)
                  kept == TargetYearIndices(user_data)
              IN  /\ stats_items[2].value = FormatThousands(SumField(nodes, kept, "views"))
                  /\ stats_items[3].value = ToString(SumField(nodes, kept, "reactionCount"))
                  /\ stats_items[4].value = ToString(user_data[2]["followersCount"][2])
                  /\ stats_items[5].value = ToString(Len(user_data[2]["badges"][2]))

\* C12 witness: bob's record was aggregated, then "ann" was typed and that
\* submission failed: bob's metrics, record and display name are all still
\* there together.
C12_Witness ==
    /\ pc = "idle" /\ requests_sent = 1
    /\ username = Ann
    /\ error_message # None
    /\ stats_items # <<>>
    /\ user_data = UserRecord(Bob, <<PostC>>)
    /\ user_display_name = JStr(Bob)
    /\ stats_items[2].value = "1,234,567"

====
